---- MODULE Spec2Model ----
(***************************************************************************)
(* XmlFactory (src/xml_factory/_xml_factory.py): path-addressed creation   *)
(* of an ElementTree.  Python strings are modelled as sequences of         *)
(* one-character strings, so that split, rsplit, endswith and `in` are     *)
(* computed as the code computes them.  Elements live in a heap `elems`;   *)
(* an Element is referred to by its index, None by 0.                      *)
(***************************************************************************)
EXTENDS Integers, Sequences, FiniteSets, TLC

VARIABLES elems,   \* heap of ElementTree.Element objects, elems[1] is the first root
          call,    \* the last facade call: [op, self, name, value]
          ret,     \* its outcome: [status, result]
          ops      \* number of calls counted by GetCall and SetCall

vars == <<elems, call, ret, ops>>

(* ------------------------------ bounds -------------------------------- *)
\* Spec explores trees of at most MaxElems elements
MaxElems == 4
\* SpecAssign explores runs of at most MaxOps calls
MaxOps == 3

(* --------------------------- Python objects --------------------------- *)
PyNone == [type |-> "NoneType", s |-> <<>>, n |-> 0]
PyStr(chars) == [type |-> "str", s |-> chars, n |-> 0]
PyInt(i) == [type |-> "int", s |-> <<>>, n |-> i]

Digit(d) == CASE d = 0 -> "0" [] d = 1 -> "1" [] d = 2 -> "2" [] d = 3 -> "3"
              [] d = 4 -> "4" [] d = 5 -> "5" [] d = 6 -> "6" [] d = 7 -> "7"
              [] d = 8 -> "8" [] d = 9 -> "9"

RECURSIVE NatToChars(_)
NatToChars(i) == IF i < 10 THEN <<Digit(i)>>
                 ELSE Append(NatToChars(i \div 10), Digit(i % 10))

IntToChars(i) == IF i < 0 THEN <<"-">> \o NatToChars(0 - i) ELSE NatToChars(i)

\* str(value) / six.text_type(value)
ToStr(v) == CASE v.type = "str" -> v
              [] v.type = "int" -> PyStr(IntToChars(v.n))
              [] v.type = "NoneType" -> PyStr(<<"N", "o", "n", "e">>)

(* ------------------------------ strings ------------------------------- *)
\* c in s
Contains(s, c) == \E i \in 1..Len(s) : s[i] = c

\* s.endswith(c)
EndsWith(s, c) == Len(s) > 0 /\ s[Len(s)] = c

\* s.split(sep)
RECURSIVE Split(_, _)
Split(s, sep) ==
    IF Contains(s, sep)
    THEN LET i == CHOOSE k \in 1..Len(s) :
                      s[k] = sep /\ \A j \in 1..(k - 1) : s[j] # sep
         IN <<SubSeq(s, 1, i - 1)>> \o Split(SubSeq(s, i + 1, Len(s)), sep)
    ELSE <<s>>

\* s.rsplit(sep), no maxsplit: every occurrence splits, scanning from the right
RECURSIVE RSplit(_, _)
RSplit(s, sep) ==
    IF Contains(s, sep)
    THEN LET i == CHOOSE k \in 1..Len(s) :
                      s[k] = sep /\ \A j \in (k + 1)..Len(s) : s[j] # sep
         IN Append(RSplit(SubSeq(s, 1, i - 1), sep), SubSeq(s, i + 1, Len(s)))
    ELSE <<s>>

(* ----------------------------- ElementTree ---------------------------- *)
\* ElementTree.Element(tag): no children, no attributes, no text
Element(tg) == [tag |-> tg, children |-> <<>>, attrib |-> <<>>, text |-> PyNone]

\* ElementTree.SubElement(parent, tag): the new element is appended to the
\* parent's children; the result is the heap, the new element is its last entry
SubElement(es, parent, tg) ==
    Append([es EXCEPT ![parent].children = Append(@, Len(es) + 1)], Element(tg))

\* first child, in document order, whose tag is tg; 0 for None
FirstTagged(es, parent, tg) ==
    LET kids == es[parent].children
        hits == {i \in 1..Len(kids) : es[kids[i]].tag = tg}
    IN IF hits = {} THEN 0
       ELSE kids[CHOOSE i \in hits : \A j \in hits : i <= j]

\* parent.find(path) for the one-step paths the model feeds it.  find reads
\* its argument as ElementPath syntax: "." is the element itself, ".." is
\* the parent within the searched subtree (never there for the subtree's
\* own root), "*" is any child, anything else here is a plain tag.
Find(es, parent, path) ==
    CASE path = <<".">> -> parent
      [] path = <<".", ".">> -> 0
      [] path = <<"*">> -> IF es[parent].children = <<>> THEN 0
                           ELSE es[parent].children[1]
      [] OTHER -> FirstTagged(es, parent, path)

(* ------------------------------ XmlFactory ---------------------------- *)
\* variant of ObtainPart in which the force marker is stripped but an
\* existing child is still looked up first
ObtainPart_ReuseForced(es, parent, i_part) ==
    LET tg == IF EndsWith(i_part, "+") THEN SubSeq(i_part, 1, Len(i_part) - 1)
              ELSE i_part
        found == Find(es, parent, tg)
    IN IF found = 0
       THEN [elems |-> SubElement(es, parent, tg), result |-> Len(es) + 1]
       ELSE [elems |-> es, result |-> found]

\* the body of the loop of _ObtainElement: resolve one part under `parent`
ObtainPart(es, parent, i_part) ==
    IF EndsWith(i_part, "+")
    THEN [elems |-> SubElement(es, parent, SubSeq(i_part, 1, Len(i_part) - 1)),
          result |-> Len(es) + 1]
    ELSE LET found == Find(es, parent, i_part)
         IN IF found = 0
            THEN [elems |-> SubElement(es, parent, i_part), result |-> Len(es) + 1]
            ELSE [elems |-> es, result |-> found]

\* the loop of _ObtainElement: the element resolved for a part is the parent
\* of the next part, the one resolved for the last part is the result
RECURSIVE ObtainParts(_, _, _)
ObtainParts(es, parent, parts) ==
    LET r == ObtainPart(es, parent, Head(parts))
    IN IF Len(parts) = 1 THEN r
       ELSE ObtainParts(r.elems, r.result, Tail(parts))

\* variant of ObtainElement without the special case of the empty name
ObtainElement_NoEmptyCase(es, root, nm) == ObtainParts(es, root, Split(nm, "/"))

\* XmlFactory._ObtainElement on the facade whose root is `root`
ObtainElement(es, root, nm) ==
    IF nm = <<>> THEN [elems |-> es, result |-> root]
    ELSE ObtainParts(es, root, Split(nm, "/"))

\* attrib[key] = v on a dict modelled as a function
DictSet(d, key, v) == [k \in (DOMAIN d) \cup {key} |-> IF k = key THEN v ELSE d[k]]

\* variant of Get in which the path is resolved before the marker is checked
Get_ResolveThenAssert(self, nm) ==
    /\ call' = [op |-> "Get", self |-> self, name |-> nm, value |-> PyNone]
    /\ LET r == ObtainElement(elems, self, nm)
       IN /\ elems' = r.elems
          /\ ret' = IF Contains(nm, "@")
                    THEN [status |-> "AssertionError", result |-> 0]
                    ELSE [status |-> "ok", result |-> r.result]

\* XmlFactory.__getitem__
Get(self, nm) ==
    /\ call' = [op |-> "Get", self |-> self, name |-> nm, value |-> PyNone]
    /\ IF Contains(nm, "@")
       THEN /\ ret' = [status |-> "AssertionError", result |-> 0]
            /\ UNCHANGED elems
       ELSE LET r == ObtainElement(elems, self, nm)
            IN /\ elems' = r.elems
               /\ ret' = [status |-> "ok", result |-> r.result]

\* variant of Set in which the attribute value is stored as it was given
Set_RawAttribute(self, nm, v) ==
    /\ call' = [op |-> "Set", self |-> self, name |-> nm, value |-> v]
    /\ IF Contains(nm, "@")
       THEN LET pieces == RSplit(nm, "@")
            IN IF Len(pieces) # 2
               THEN /\ ret' = [status |-> "ValueError", result |-> 0]
                    /\ UNCHANGED elems
               ELSE LET r == ObtainElement(elems, self, pieces[1])
                    IN /\ elems' = [r.elems EXCEPT ![r.result].attrib =
                                        DictSet(@, pieces[2], v)]
                       /\ ret' = [status |-> "ok", result |-> r.result]
       ELSE LET r == ObtainElement(elems, self, nm)
            IN /\ elems' = [r.elems EXCEPT ![r.result].text = ToStr(v)]
               /\ ret' = [status |-> "ok", result |-> r.result]

\* XmlFactory.__setitem__
Set(self, nm, v) ==
    /\ call' = [op |-> "Set", self |-> self, name |-> nm, value |-> v]
    /\ IF Contains(nm, "@")
       THEN LET pieces == RSplit(nm, "@")
            IN IF Len(pieces) # 2
               THEN \* element_name, attr_name = ... cannot unpack
                    /\ ret' = [status |-> "ValueError", result |-> 0]
                    /\ UNCHANGED elems
               ELSE LET r == ObtainElement(elems, self, pieces[1])
                    IN /\ elems' = [r.elems EXCEPT ![r.result].attrib =
                                        DictSet(@, pieces[2], ToStr(v))]
                       /\ ret' = [status |-> "ok", result |-> r.result]
       ELSE LET r == ObtainElement(elems, self, nm)
            IN /\ elems' = [r.elems EXCEPT ![r.result].text = ToStr(v)]
               /\ ret' = [status |-> "ok", result |-> r.result]

(* ------------------------------- inputs ------------------------------- *)
\* element paths handed to the facade
Paths == { <<>>,
           <<"a">>, <<"a", "+">>, <<"*", "+">>,
           <<".">>, <<".", ".">>, <<"*">>,
           <<"a", "/", "b">>, <<"a", "/", "b", "/", "a">>,
           <<".", "/", "a">> }

\* names handed to Get and to Set when assignments are explored
CallGetNames == { <<>>, <<"a">>, <<"a", "+">>, <<"a", "@", "c">> }

CallSetNames == { <<>>, <<"a">>, <<".", ".">>,
                  <<"@", "c">>, <<"a", "@", "c">>, <<"a", "/", "b", "@", "c">>,
                  <<"a", "@", "b", "@", "c">> }

\* values assigned: a string and a number
Values == { PyStr(<<"X">>), PyInt(12) }

\* XmlFactory('root')
Init ==
    /\ elems = <<Element(<<"r", "o", "o", "t">>)>>
    /\ call = [op |-> "new", self |-> 1, name |-> <<>>, value |-> PyNone]
    /\ ret = [status |-> "ok", result |-> 1]
    /\ ops = 0

\* a facade wraps any element of the tree: the results of earlier calls are
\* facades, and XmlFactory(element) wraps an existing Element
Facades == 1..Len(elems)

\* Get on any facade, while the tree fits the element bound
GetStep ==
    /\ \E self \in Facades, nm \in Paths \cup {<<"a", "@", "c">>} : Get(self, nm)
    /\ Len(elems') <= MaxElems
    /\ UNCHANGED ops

Next == GetStep

Spec == Init /\ [][Next]_vars

\* Get and Set calls on any facade, while the call budget lasts
GetCall ==
    /\ ops < MaxOps
    /\ ops' = ops + 1
    /\ \E self \in Facades, nm \in CallGetNames : Get(self, nm)

SetCall ==
    /\ ops < MaxOps
    /\ ops' = ops + 1
    /\ \E self \in Facades, nm \in CallSetNames, v \in Values : Set(self, nm, v)

NextAssign == GetCall \/ SetCall

SpecAssign == Init /\ [][NextAssign]_vars

(* -------------------- vocabulary of the properties -------------------- *)
\* a name that is one segment: not empty, no "/", no "@"
OneSegment(nm) == nm # <<>> /\ ~Contains(nm, "/") /\ ~Contains(nm, "@")

\* one segment with no force marker
PlainSegment(nm) == OneSegment(nm) /\ ~EndsWith(nm, "+")

\* one segment t followed by the force marker
ForcedSegment(nm) == OneSegment(nm) /\ EndsWith(nm, "+")

\* the elements of a sequence, as a set
Range(sq) == {sq[i] : i \in 1..Len(sq)}

\* the children of `parent` in `es` whose tag is tg
Tagged(es, parent, tg) == {c \in Range(es[parent].children) : es[c].tag = tg}

(* ------------------------------ C1 ------------------------------------ *)
\* C1: a Get of a one-segment name t without force marker that directly
\* follows an identical successful Get on the same facade returns the same
\* element and creates no element.
C1_SecondLookupSame ==
    [][ ( /\ call.op = "Get" /\ ret.status = "ok"
          /\ call'.op = "Get" /\ call'.self = call.self /\ call'.name = call.name
          /\ PlainSegment(call.name) )
        => (ret'.result = ret.result /\ Len(elems') = Len(elems)) ]_vars

(* ------------------------------ C2 ------------------------------------ *)
\* C2: a Get of "t+" appends exactly one new element, tagged t, as the last
\* child of the facade's element and returns it; the element existed in no
\* earlier tree, whatever children tagged t were there; a second Get of "t+"
\* right after returns another element, and both are children tagged t.
C2_ForceCreates ==
    [][ (call'.op = "Get" /\ ForcedSegment(call'.name))
        => LET t == SubSeq(call'.name, 1, Len(call'.name) - 1)
               p == call'.self
               new == ret'.result
           IN /\ ret'.status = "ok"
              /\ new = Len(elems) + 1
              /\ elems' = Append([elems EXCEPT ![p].children = Append(@, new)],
                                 Element(t))
              /\ Tagged(elems', p, t) = Tagged(elems, p, t) \cup {new}
              /\ ( (call.op = "Get" /\ call.name = call'.name /\ call.self = p)
                   => /\ ret.result # new
                      /\ {ret.result, new} \subseteq Tagged(elems', p, t) ) ]_vars

\* C2 witness: "a+" was resolved under an element that already had a child
\* tagged a, and the result is a further child tagged a.
C2_Witness ==
    /\ call.op = "Get" /\ call.name = <<"a", "+">> /\ ret.status = "ok"
    /\ elems[ret.result].tag = <<"a">>
    /\ Cardinality(Tagged(elems, call.self, <<"a">>)) >= 2
    /\ ret.result \in Tagged(elems, call.self, <<"a">>)

(* ------------------------------ C3 ------------------------------------ *)
\* C3: a Get of a one-segment name t without force marker, on a facade whose
\* element has children tagged t, returns the first of them in document order.
C3_FirstTaggedChild ==
    [][ ( /\ call'.op = "Get" /\ PlainSegment(call'.name)
          /\ Tagged(elems, call'.self, call'.name) # {} )
        => ret'.result = FirstTagged(elems, call'.self, call'.name) ]_vars

(* ------------------------------ C4 ------------------------------------ *)
\* the elements Len(es)+1 .. Len(es)+n of es2 are a chain hanging under p
Chain(es, es2, p, n) ==
    /\ Len(es2) = Len(es) + n
    /\ es2[p].children = es[p].children \o <<Len(es) + 1>>
    /\ \A k \in 1..n :
          es2[Len(es) + k].children =
              IF k < n THEN <<Len(es) + k + 1>> ELSE <<>>

\* C4: a Get of a non-empty path of n segments on a facade whose element has
\* no children creates exactly n elements, a chain under that element, and
\* returns the last of the chain.
C4_ChainOfN ==
    [][ ( /\ call'.op = "Get" /\ ret'.status = "ok" /\ call'.name # <<>>
          /\ elems[call'.self].children = <<>> )
        => LET n == Len(Split(call'.name, "/"))
           IN /\ Chain(elems, elems', call'.self, n)
              /\ ret'.result = Len(elems) + n ]_vars

(* ------------------------------ C5 ------------------------------------ *)
\* every attribute value in the tree is a str
AllAttributesStr ==
    \A e \in 1..Len(elems) : \A k \in DOMAIN elems[e].attrib :
        elems[e].attrib[k].type = "str"

\* C5: a Set of "<path>@<attr>" succeeds on the element that resolving <path>
\* yields, whose attribute <attr> becomes str(value); every element keeps
\* its text (a created element has none) and every other attribute of every
\* element is as before; and all attribute values in the tree are strings.
C5_AttributeOnly ==
    /\ [][ (call'.op = "Set" /\ Len(RSplit(call'.name, "@")) = 2)
           => LET path == RSplit(call'.name, "@")[1]
                  attr == RSplit(call'.name, "@")[2]
                  r == ret'.result
              IN /\ ret'.status = "ok"
                 /\ r = ObtainElement(elems, call'.self, path).result
                 /\ r \in 1..Len(elems')
                 /\ attr \in DOMAIN elems'[r].attrib
                 /\ elems'[r].attrib[attr] = ToStr(call'.value)
                 /\ \A e \in 1..Len(elems') :
                       LET old == IF e <= Len(elems) THEN elems[e]
                                  ELSE Element(elems'[e].tag)
                       IN /\ elems'[e].text = old.text
                          /\ DOMAIN elems'[e].attrib =
                                 (DOMAIN old.attrib) \cup (IF e = r THEN {attr} ELSE {})
                          /\ \A k \in DOMAIN old.attrib :
                                 (e # r \/ k # attr) => elems'[e].attrib[k] = old.attrib[k]
         ]_vars
    /\ []AllAttributesStr

\* C5 witness: Set("a@c", 12) on an element a that already had text: the
\* attribute is the string "12" and the text is still there.
C5_Witness ==
    /\ call.op = "Set" /\ call.name = <<"a", "@", "c">> /\ call.value = PyInt(12)
    /\ ret.status = "ok"
    /\ elems[ret.result].attrib[<<"c">>] = PyStr(<<"1", "2">>)
    /\ elems[ret.result].text = PyStr(<<"X">>)

(* ------------------------------ C6 ------------------------------------ *)
\* C6: a Set of a path without force marker that directly follows a Set of the
\* same path on the same facade leaves the text of the element it returns
\* equal to str(value) of the second Set, and creates no element.
C6_LastWriteWins ==
    [][ ( /\ call.op = "Set" /\ ret.status = "ok"
          /\ call'.op = "Set" /\ call'.self = call.self /\ call'.name = call.name
          /\ ~Contains(call.name, "@") /\ ~Contains(call.name, "+") )
        => /\ ret'.status = "ok"
           /\ elems'[ret'.result].text = ToStr(call'.value)
           /\ Len(elems') = Len(elems) ]_vars

(* ------------------------------ C7 ------------------------------------ *)
\* C7: after a Set of a name holding "@", the call has succeeded and the
\* element it returns carries an attribute whose value is str(value).
C7_AnyMarkerSetsAttribute ==
    (call.op = "Set" /\ Contains(call.name, "@"))
    => /\ ret.status = "ok"
       /\ ret.result \in 1..Len(elems)
       /\ \E k \in DOMAIN elems[ret.result].attrib :
             elems[ret.result].attrib[k] = ToStr(call.value)

C10_ExactTagChild ==
    [][ (call'.op = "Get" /\ PlainSegment(call'.name))
        => LET t == call'.name
               p == call'.self
           IN IF Tagged(elems, p, t) # {}
              THEN ret'.result = FirstTagged(elems, p, t) /\ elems' = elems
              ELSE /\ ret'.result = Len(elems) + 1
                   /\ elems' = Append([elems EXCEPT ![p].children =
                                          Append(@, Len(elems) + 1)], Element(t)) ]_vars

(* ------------------------------ C9 ------------------------------------ *)
\* C9: with the empty path the facade's own element is the result and no
\* element is created: Get("") changes nothing, Set("", v) changes only the
\* text of that element, Set("@a", v) only its attribute a.
C9_EmptyPathIsSelf ==
    [][ /\ (call'.op = "Get" /\ call'.name = <<>>)
           => (ret'.result = call'.self /\ elems' = elems)
        /\ (call'.op = "Set" /\ call'.name = <<>>)
           => /\ ret'.result = call'.self
              /\ elems' = [elems EXCEPT ![call'.self].text = ToStr(call'.value)]
        /\ ( /\ call'.op = "Set" /\ Len(RSplit(call'.name, "@")) = 2
             /\ RSplit(call'.name, "@")[1] = <<>> )
           => /\ ret'.result = call'.self
              /\ elems' = [elems EXCEPT ![call'.self].attrib =
                              DictSet(@, RSplit(call'.name, "@")[2], ToStr(call'.value))]
      ]_vars

\* C9 witness: Set("", "X") and then Set("@c", 12) on the root facade: the
\* root alone is the tree, with text "X" and attribute c = "12".
C9_Witness ==
    /\ call.op = "Set" /\ call.name = <<"@", "c">> /\ ret.result = call.self
    /\ Len(elems) = 1
    /\ elems[1].text = PyStr(<<"X">>)
    /\ elems[1].attrib[<<"c">>] = PyStr(<<"1", "2">>)

====
